---- MODULE Spec2Model ----
(***************************************************************************)
(* A model of cased-tf (src/cased_tf/__init__.py): the `analyze` command   *)
(* as a linear pipeline, and its pure helpers (load_config, the directory  *)
(* validation, the endpoint URL, print_drift_report) as operators.         *)
(*                                                                         *)
(* Python's None is the string None; a dict key that may be absent is a    *)
(* field holding None; `not x` on an optional string is ~Truthy(x).        *)
(***************************************************************************)
EXTENDS Naturals, Sequences, FiniteSets, TLC

VARIABLES
    \* the analyze run: CLI flags as typed, and the environment
    flag_project, flag_environment, flag_api_key, flag_api_url,
    flag_working_dir, flag_config, local, dry_run,
    env_api_key, env_api_url,
    \* the analyze run: locals of analyze()
    cfg, api_key, api_url, project, environment, working_dir,
    \* the analyze run: control, effects and output
    pc, stages, diag, exit_code, dir_seen, show_seen,
    subprocess_calls, http_posts, request, report, report_lines,
    \* load_config called on its own
    lc_config_file, lc_exists, lc_unreadable, lc_result,
    \* CasedAPI's URL on its own
    url_base, url_project, url_out,
    \* print_drift_report called on its own
    pr_report, pr_out, pr_called

runVars == <<flag_project, flag_environment, flag_api_key, flag_api_url,
             flag_working_dir, flag_config, local, dry_run,
             env_api_key, env_api_url,
             cfg, api_key, api_url, project, environment, working_dir,
             pc, stages, diag, exit_code, dir_seen, show_seen,
             subprocess_calls, http_posts, request, report, report_lines>>

lcVars == <<lc_config_file, lc_exists, lc_unreadable, lc_result>>

urlVars == <<url_base, url_project, url_out>>

prVars == <<pr_report, pr_out, pr_called>>

vars == <<runVars, lcVars, urlVars, prVars>>

----------------------------------------------------------------------------
(* Python values *)

None == "None"

Truthy(x) == x # None /\ x # ""

\* Python's `a or b` on optional strings
Or(a, b) == IF Truthy(a) THEN a ELSE b

DefaultApiUrl == "https://app.cased.com"

LocalApiUrl == "http://localhost:3000"

DryRunKey == "dry-run-key"

----------------------------------------------------------------------------
(* URLs.  TLC has no character-level operations on strings, so a URL is a  *)
(* sequence of tokens; each token stands for the text of its own name, and *)
(* no token's text shares a character run with "/api/v1" except the three  *)
(* tokens "/", "api" and "v1" that spell it.  Tokens gives the spelling of *)
(* the URL and project strings the analyze run uses.                       *)

ApiV1 == <<"/", "api", "/", "v1">>

Tokens(s) ==
    CASE s = "https://app.cased.com"        -> <<"https:", "/", "/", "app.cased.com">>
      [] s = "http://localhost:3000"        -> <<"http:", "/", "/", "localhost:3000">>
      [] s = "https://flag.example/api/v1/" -> <<"https:", "/", "/", "flag.example", "/", "api", "/", "v1", "/">>
      [] s = "https://env.example"          -> <<"https:", "/", "/", "env.example">>
      [] s = "https://cfg.example/api/v1"   -> <<"https:", "/", "/", "cfg.example", "/", "api", "/", "v1">>
      [] s = "acme/infra"                   -> <<"acme", "/", "infra">>
      [] s = "cfg/infra"                    -> <<"cfg", "/", "infra">>
      [] OTHER                              -> <<s>>

\* str.rstrip("/")
RECURSIVE RStripSlash(_)
RStripSlash(s) ==
    IF s # <<>> /\ s[Len(s)] = "/" THEN RStripSlash(SubSeq(s, 1, Len(s) - 1)) ELSE s

StartsWith(s, p) == Len(s) >= Len(p) /\ SubSeq(s, 1, Len(p)) = p

\* str.replace(p, ""): every non-overlapping occurrence, scanning left to right
RECURSIVE RemoveAll(_, _)
RemoveAll(s, p) ==
    IF s = <<>> THEN <<>>
    ELSE IF StartsWith(s, p) THEN RemoveAll(SubSeq(s, Len(p) + 1, Len(s)), p)
    ELSE <<s[1]>> \o RemoveAll(Tail(s), p)

\* CasedAPI.__init__: self.base_url
BaseUrl(base_url) == RemoveAll(RStripSlash(base_url), ApiV1)

\* CasedAPI.analyze_terraform: url
RequestUrl(base_url, proj) ==
    BaseUrl(base_url) \o ApiV1 \o <<"/", "projects", "/">> \o proj \o <<"/", "infra", "/", "local">>

----------------------------------------------------------------------------
(* load_config *)

UserConfigPath == "~/.config/cased/config.yml"

HomeConfigPath == "~/.cased/config.yml"

LocalConfigPath == ".cased.yml"

ExplicitPath == "explicit.yml"

default_locations == <<UserConfigPath, HomeConfigPath, LocalConfigPath>>

\* the for loop of load_config: the first default location that exists, else
\* config_file as it was
RECURSIVE FirstExisting(_, _, _)
FirstExisting(locs, exists, otherwise) ==
    IF locs = <<>> THEN otherwise
    ELSE IF locs[1] \in exists THEN locs[1]
    ELSE FirstExisting(Tail(locs), exists, otherwise)

\* a load_config that goes on to the default locations when the explicit
\* path does not exist
ConfigPathFallingThrough(config_file, exists) ==
    FirstExisting((IF Truthy(config_file) THEN <<config_file>> ELSE <<>>)
                    \o default_locations, exists, None)

\* load_config up to the open(): the file it settles on, or None
ConfigPath(config_file, exists) ==
    LET chosen == IF ~Truthy(config_file)
                  THEN FirstExisting(default_locations, exists, config_file)
                  ELSE config_file
    IN IF ~Truthy(chosen) \/ chosen \notin exists THEN None ELSE chosen

\* load_config: "empty" is the return {} of line 28, "loaded" the parsed file,
\* "error" the UsageError of line 36 (the file cannot be read or parsed)
LoadConfig(config_file, exists, unreadable) ==
    LET path == ConfigPath(config_file, exists)
    IN IF path = None THEN [status |-> "empty", path |-> None]
       ELSE IF path \in unreadable THEN [status |-> "error", path |-> path]
       ELSE [status |-> "loaded", path |-> path]

----------------------------------------------------------------------------
(* TerraformAnalyzer *)

\* a working directory as os.listdir / os.path.exists see it
DirStates ==
    {[exists |-> TRUE, has_tf |-> t, has_dot_terraform |-> d] : t, d \in BOOLEAN}
      \cup {[exists |-> FALSE, has_tf |-> FALSE, has_dot_terraform |-> FALSE]}

NoDir == [exists |-> FALSE, has_tf |-> FALSE, has_dot_terraform |-> FALSE]

\* a validation that forgets the .terraform check
ValidateWithoutInitCheck(d) ==
    IF ~d.exists THEN [cls |-> "FileNotFoundError", msg |-> "listdir"]
    ELSE IF ~d.has_tf THEN [cls |-> "UsageError", msg |-> "No .tf files found"]
    ELSE [cls |-> "ok", msg |-> ""]

\* validate_terraform_directory: "ok" when it returns, else the exception raised
ValidateTerraformDirectory(d) ==
    IF ~d.exists THEN [cls |-> "FileNotFoundError", msg |-> "listdir"]
    ELSE IF ~d.has_tf THEN [cls |-> "UsageError", msg |-> "No .tf files found"]
    ELSE IF ~d.has_dot_terraform
         THEN [cls |-> "UsageError", msg |-> "Terraform not initialized. Please run 'terraform init' first."]
    ELSE [cls |-> "ok", msg |-> ""]

\* what subprocess.run(["terraform", "show", "-json"]) can come back with
ShowResults ==
    {[started |-> TRUE, returncode |-> rc, json |-> j] : rc \in {0, 1}, j \in BOOLEAN}
      \cup {[started |-> FALSE, returncode |-> 1, json |-> FALSE]}

NoShow == [started |-> FALSE, returncode |-> 1, json |-> FALSE]

\* get_show_output after the validation: "ok" when it returns the parsed output
ShowOutcome(r) ==
    IF ~r.started THEN [cls |-> "FileNotFoundError", msg |-> "terraform"]
    ELSE IF r.returncode # 0 THEN [cls |-> "UsageError", msg |-> "terraform show failed"]
    ELSE IF ~r.json
         THEN [cls |-> "UsageError", msg |-> "Failed to parse terraform show output as JSON"]
    ELSE [cls |-> "ok", msg |-> ""]

----------------------------------------------------------------------------
(* print_drift_report.  A report is the dict the service returns: keys is   *)
(* the set of keys it has, and a bucket whose key is absent is <<>>.  An    *)
(* output line is a tuple: its kind, then the texts it interpolates.        *)

BucketKeys == {"managed_resources", "unmanaged_resources", "missing_resources"}

EmptyReport == [keys |-> {}, managed |-> <<>>, unmanaged |-> <<>>, missing |-> <<>>]

\* report.get(key, [])
Bucket(r, key) ==
    IF key \notin r.keys THEN <<>>
    ELSE IF key = "managed_resources" THEN r.managed
    ELSE IF key = "unmanaged_resources" THEN r.unmanaged
    ELSE r.missing

RECURSIVE ChangeLines(_)
ChangeLines(drift) ==
    IF drift = <<>> THEN <<>>
    ELSE <<<<"change", drift[1].field, drift[1].expected, drift[1].actual>>>>
           \o ChangeLines(Tail(drift))

\* a test that also opens the block for any status but "synced"
HasDriftOrNotSynced(res) == res.status # "synced" \/ (res.has_drift /\ res.drift # <<>>)

\* resource.get("drift"): falsy when the key is absent or the list is empty
HasDrift(res) == res.has_drift /\ res.drift # <<>>

\* one managed resource: lines 163-177
ManagedLines(res) ==
    <<<<"resource", "managed", res.id, IF res.status = "synced" THEN "green" ELSE "yellow">>,
      <<"type", res.id>>,
      <<"status", res.status>>>>
      \o (IF HasDrift(res) THEN <<<<"changes">>>> \o ChangeLines(res.drift) ELSE <<>>)
      \o <<<<"blank">>>>

\* one unmanaged or missing resource: lines 184-189, 196-201
PlainLines(res, bucket, color) ==
    <<<<"resource", bucket, res.id, color>>, <<"type", res.id>>, <<"blank">>>>

RECURSIVE ManagedBlock(_)
ManagedBlock(rs) ==
    IF rs = <<>> THEN <<>> ELSE ManagedLines(rs[1]) \o ManagedBlock(Tail(rs))

RECURSIVE PlainBlock(_, _, _)
PlainBlock(rs, bucket, color) ==
    IF rs = <<>> THEN <<>>
    ELSE PlainLines(rs[1], bucket, color) \o PlainBlock(Tail(rs), bucket, color)

\* all_resources of lines 148-152
AllResources(r) ==
    Bucket(r, "managed_resources") \o Bucket(r, "unmanaged_resources")
      \o Bucket(r, "missing_resources")

\* lines 158-201: each bucket that is not empty, under its heading
BucketLines(r) ==
    LET managed == Bucket(r, "managed_resources")
        unmanaged == Bucket(r, "unmanaged_resources")
        missing == Bucket(r, "missing_resources")
    IN (IF managed # <<>>
        THEN <<<<"bucket", "managed">>>> \o ManagedBlock(managed) ELSE <<>>)
         \o (IF unmanaged # <<>>
             THEN <<<<"bucket", "unmanaged">>>> \o PlainBlock(unmanaged, "unmanaged", "yellow")
             ELSE <<>>)
         \o (IF missing # <<>>
             THEN <<<<"bucket", "missing">>>> \o PlainBlock(missing, "missing", "red")
             ELSE <<>>)

\* a printer that tests for the all-empty report before it prints the heading
PrintDriftReportSuccessFirst(r) ==
    IF r.keys = {} THEN <<>>
    ELSE IF AllResources(r) = <<>> THEN <<<<"success">>>>
    ELSE <<<<"heading">>>> \o BucketLines(r)

\* print_drift_report: the lines it prints, in order
PrintDriftReport(r) ==
    IF r.keys = {} THEN <<>>
    ELSE <<<<"heading">>>>
           \o (IF AllResources(r) = <<>> THEN <<<<"success">>>> ELSE BucketLines(r))

----------------------------------------------------------------------------
(* The analyze command *)

\* a click option with an envvar and a default: the flag, else the variable
\* when it is set and not empty, else the default
ClickOption(flag, env, default) ==
    IF flag # None THEN flag ELSE IF Truthy(env) THEN env ELSE default

\* cfg.get(key, default) on a key that may be absent
CfgGet(value, default) == IF value = None THEN default ELSE value

\* os.path.expanduser
Expanduser(path) == IF path = "~/infra" THEN "/home/user/infra" ELSE path

EmptyCfg ==
    [api_key |-> None, api_url |-> None, project |-> None,
     environment |-> None, working_dir |-> None]

\* the mappings a config file can hold
Configs ==
    [api_key : {None, "cfg-key"},
     api_url : {None, "https://cfg.example/api/v1"},
     project : {None, "", "cfg/infra"},
     environment : {None, "staging"},
     working_dir : {None, "~/infra"}]

\* lines 269-270
ResolveApiKey(param, env, c) ==
    IF ~Truthy(param) THEN Or(env, c.api_key) ELSE param

\* lines 272-275
ResolveApiUrl(param, is_local, env, c) ==
    IF is_local THEN LocalApiUrl
    ELSE IF param = DefaultApiUrl THEN Or(env, CfgGet(c.api_url, param))
    ELSE param

\* lines 277, 281
ResolveFromConfig(param, value) == Or(param, value)

\* lines 285-286
ResolveWorkingDir(param, c) ==
    IF ~Truthy(param) /\ Truthy(c.working_dir) THEN Expanduser(c.working_dir) ELSE param

Ok == [cls |-> "ok", msg |-> ""]

\* checks that want the API key in a dry run too
RequiredValuesKeyAlways(proj, env, key, dry) ==
    IF ~Truthy(proj)
    THEN [cls |-> "UsageError", msg |-> "Project must be specified via --project or config file"]
    ELSE IF ~Truthy(env)
    THEN [cls |-> "UsageError", msg |-> "Environment must be specified via --environment or config file"]
    ELSE IF ~Truthy(key)
    THEN [cls |-> "UsageError", msg |-> "--api-key is required unless using --dry-run"]
    ELSE Ok

\* the three checks of lines 278-293, in the code's order: the first that fails
RequiredValues(proj, env, key, dry) ==
    IF ~Truthy(proj)
    THEN [cls |-> "UsageError", msg |-> "Project must be specified via --project or config file"]
    ELSE IF ~Truthy(env)
    THEN [cls |-> "UsageError", msg |-> "Environment must be specified via --environment or config file"]
    ELSE IF ~dry /\ ~Truthy(key)
    THEN [cls |-> "UsageError", msg |-> "--api-key is required unless using --dry-run"]
    ELSE Ok

\* the subclasses of requests.RequestException the run can meet
RequestExceptions == {"HTTPError", "ConnectionError", "requests.JSONDecodeError"}

\* the except clauses of lines 314-323, in order: the report the error gets
Handler(cls) ==
    IF cls = "CalledProcessError" THEN "terraform"
    ELSE IF cls \in RequestExceptions THEN "network"
    ELSE "unexpected"

NoDiag == [kind |-> "none", cls |-> "none", msg |-> "", stage |-> "none"]

NoRequest == [url |-> <<>>, authorization |-> None, environment |-> None, sent |-> FALSE]

StageOrder ==
    <<"load_config", "resolve", "validate", "terraform_show", "analyze_terraform", "print">>

\* an exception reaching the except clauses: the diagnostic, then click.Abort
Abort(exc, stage) ==
    /\ pc' = "aborted"
    /\ diag' = [kind |-> Handler(exc.cls), cls |-> exc.cls, msg |-> exc.msg, stage |-> stage]
    /\ exit_code' = 1

inputVars == <<flag_project, flag_environment, flag_api_key, flag_api_url,
               flag_working_dir, flag_config, local, dry_run,
               env_api_key, env_api_url>>

localVars == <<api_key, api_url, project, environment, working_dir>>

effectVars == <<dir_seen, show_seen, subprocess_calls, http_posts, request,
                report, report_lines>>

otherVars == <<lcVars, urlVars, prVars>>

\* line 266: cfg = load_config(config).  --config is a click.Path(exists=True),
\* so the explicit file existed when the options were parsed.
LoadConfigStep ==
    /\ pc = "load_config"
    /\ stages' = Append(stages, "load_config")
    /\ \E exists \in SUBSET {UserConfigPath, HomeConfigPath, LocalConfigPath, ExplicitPath},
          readable \in BOOLEAN :
         /\ flag_config # None => flag_config \in exists
         /\ LET r == LoadConfig(flag_config, exists, IF readable THEN {} ELSE exists)
            IN \/ /\ r.status = "empty"
                  /\ cfg' = EmptyCfg
                  /\ pc' = "resolve"
                  /\ UNCHANGED <<diag, exit_code>>
               \/ /\ r.status = "loaded"
                  /\ cfg' \in Configs
                  /\ pc' = "resolve"
                  /\ UNCHANGED <<diag, exit_code>>
               \/ /\ r.status = "error"
                  /\ cfg' = cfg
                  /\ Abort([cls |-> "UsageError", msg |-> "Failed to load config file"],
                           "load_config")
    /\ UNCHANGED <<inputVars, localVars, effectVars, otherVars>>

\* lines 268-295: merge the sources, check the required values
ResolveValues ==
    /\ pc = "resolve"
    /\ stages' = Append(stages, "resolve")
    /\ LET key == ResolveApiKey(api_key, env_api_key, cfg)
           url == ResolveApiUrl(api_url, local, env_api_url, cfg)
           proj == ResolveFromConfig(project, cfg.project)
           env == ResolveFromConfig(environment, cfg.environment)
           wd == ResolveWorkingDir(working_dir, cfg)
           err == RequiredValues(proj, env, key, dry_run)
       IN /\ api_key' = key
          /\ api_url' = url
          /\ project' = proj
          \* the locals a raise leaves unassigned keep their values
          /\ environment' = IF Truthy(proj) THEN env ELSE environment
          /\ working_dir' = IF Truthy(proj) /\ Truthy(env) THEN wd ELSE working_dir
          /\ IF err = Ok
             THEN pc' = "validate" /\ UNCHANGED <<diag, exit_code>>
             ELSE Abort(err, "resolve")
    /\ UNCHANGED <<inputVars, cfg, effectVars, otherVars>>

\* a get_show_output that looks at the directory and goes on whatever it finds
ValidateDirectoryIgnored ==
    /\ pc = "validate"
    /\ stages' = Append(stages, "validate")
    /\ dir_seen' \in DirStates
    /\ pc' = "terraform_show"
    /\ UNCHANGED <<inputVars, cfg, localVars, show_seen, subprocess_calls,
                   http_posts, request, report, report_lines, diag, exit_code,
                   otherVars>>

\* lines 59, 43-55: get_show_output starts with validate_terraform_directory
ValidateDirectory ==
    /\ pc = "validate"
    /\ stages' = Append(stages, "validate")
    /\ \E d \in DirStates :
         /\ dir_seen' = d
         /\ LET err == ValidateTerraformDirectory(d)
            IN IF err = Ok
               THEN pc' = "terraform_show" /\ UNCHANGED <<diag, exit_code>>
               ELSE Abort(err, "validate")
    /\ UNCHANGED <<inputVars, cfg, localVars, show_seen, subprocess_calls,
                   http_posts, request, report, report_lines, otherVars>>

\* lines 61-99: terraform show -json, its exit status, its output parsed
TerraformShow ==
    /\ pc = "terraform_show"
    /\ stages' = Append(stages, "terraform_show")
    /\ subprocess_calls' = subprocess_calls + 1
    /\ \E r \in ShowResults :
         /\ show_seen' = r
         /\ LET err == ShowOutcome(r)
            IN IF err = Ok
               THEN pc' = "analyze_terraform" /\ UNCHANGED <<diag, exit_code>>
               ELSE Abort(err, "terraform_show")
    /\ UNCHANGED <<inputVars, cfg, localVars, dir_seen, http_posts, request,
                   report, report_lines, otherVars>>


\* the reports the service answers a run with
RunReports ==
    {EmptyReport,
     [keys |-> {"managed_resources"}, managed |-> <<>>, unmanaged |-> <<>>, missing |-> <<>>],
     [keys |-> BucketKeys,
      managed |-> <<[id |-> "r1", status |-> "synced", has_drift |-> FALSE, drift |-> <<>>]>>,
      unmanaged |-> <<>>, missing |-> <<>>],
     [keys |-> BucketKeys,
      managed |-> <<[id |-> "r1", status |-> "drifted", has_drift |-> TRUE,
                     drift |-> <<[field |-> "f1", expected |-> "e1", actual |-> "a1"]>>]>>,
      unmanaged |-> <<[id |-> "r2"]>>, missing |-> <<>>]}

\* what requests.post, raise_for_status and response.json() can come back with:
\* a parsed report, or the exception raised.  A body that is not JSON raises
\* requests' JSONDecodeError from requests 2.27 on and a plain ValueError
\* before (setup.py allows requests >= 2.25.0).
HttpOutcomes ==
    {[cls |-> "ok", msg |-> "", report |-> r] : r \in RunReports}
      \cup {[cls |-> c, msg |-> c, report |-> EmptyReport] :
              c \in {"ConnectionError", "HTTPError", "requests.JSONDecodeError", "ValueError"}}

\* CasedAPI(api_key or "dry-run-key", api_url) and the request of lines 115-119
BuildRequest(key, url, proj, env, sent) ==
    [url |-> RequestUrl(Tokens(url), Tokens(proj)),
     authorization |-> Or(key, DryRunKey),
     environment |-> env,
     sent |-> sent]

\* lines 132-138: the POST, raise_for_status, response.json()
AnalyzeTerraformPost ==
    /\ request' = BuildRequest(api_key, api_url, project, environment, TRUE)
    /\ http_posts' = http_posts + 1
    /\ \E o \in HttpOutcomes :
         IF o.cls = "ok"
         THEN report' = o.report /\ pc' = "print" /\ UNCHANGED <<diag, exit_code>>
         ELSE report' = report /\ Abort([cls |-> o.cls, msg |-> o.msg], "analyze_terraform")

\* an analyze_terraform that does not look at dry_run
AnalyzeTerraformDryRunPosts == AnalyzeTerraformPost

\* lines 121-130: the dry run prints the request and returns {}
AnalyzeTerraformDryRun ==
    /\ request' = BuildRequest(api_key, api_url, project, environment, FALSE)
    /\ report' = EmptyReport
    /\ pc' = "print"
    /\ UNCHANGED <<http_posts, diag, exit_code>>

\* lines 305-310, 107-138: api.analyze_terraform(...)
AnalyzeTerraform ==
    /\ pc = "analyze_terraform"
    /\ stages' = Append(stages, "analyze_terraform")
    /\ IF dry_run THEN AnalyzeTerraformDryRun ELSE AnalyzeTerraformPost
    /\ UNCHANGED <<inputVars, cfg, localVars, dir_seen, show_seen,
                   subprocess_calls, report_lines, otherVars>>

\* line 312: print_drift_report(report), then the command returns
PrintReport ==
    /\ pc = "print"
    /\ stages' = Append(stages, "print")
    /\ report_lines' = PrintDriftReport(report)
    /\ pc' = "done"
    /\ exit_code' = 0
    /\ UNCHANGED <<inputVars, cfg, localVars, dir_seen, show_seen,
                   subprocess_calls, http_posts, request, report, diag, otherVars>>

\* load_config, the URL and the printer on their own are idle during a run
LcIdle ==
    /\ lc_config_file = None
    /\ lc_exists = {}
    /\ lc_unreadable = {}
    /\ lc_result = [status |-> "none", path |-> None]

UrlIdle ==
    /\ url_base = <<>>
    /\ url_project = <<>>
    /\ url_out = <<>>

PrIdle ==
    /\ pr_report = EmptyReport
    /\ pr_out = <<>>
    /\ pr_called = FALSE

\* a run that has not started: no local assigned, nothing done
RunIdle ==
    /\ flag_project = None /\ flag_environment = None
    /\ flag_api_key = None /\ flag_api_url = None
    /\ flag_working_dir = None /\ flag_config = None
    /\ local = FALSE /\ dry_run = FALSE
    /\ env_api_key = None /\ env_api_url = None
    /\ cfg = EmptyCfg
    /\ api_key = None /\ api_url = None /\ project = None
    /\ environment = None /\ working_dir = None
    /\ pc = "idle" /\ stages = <<>> /\ diag = NoDiag /\ exit_code = 0
    /\ dir_seen = NoDir /\ show_seen = NoShow
    /\ subprocess_calls = 0 /\ http_posts = 0
    /\ request = NoRequest /\ report = EmptyReport /\ report_lines = <<>>

\* analyze() entered: click has parsed the options (lines 210-262)
Init ==
    /\ flag_project \in {None, "acme/infra"}
    /\ flag_environment \in {None, "prod"}
    /\ flag_api_key \in {None, "flag-key"}
    /\ flag_api_url \in {None, DefaultApiUrl, "https://flag.example/api/v1/"}
    /\ flag_working_dir \in {None, "/srv/tf"}
    /\ flag_config \in {None, ExplicitPath}
    /\ local \in BOOLEAN
    /\ dry_run \in BOOLEAN
    /\ env_api_key \in {None, "env-key"}
    /\ env_api_url \in {None, "https://env.example"}
    /\ cfg = EmptyCfg
    /\ api_key = ClickOption(flag_api_key, env_api_key, None)
    /\ api_url = ClickOption(flag_api_url, env_api_url, DefaultApiUrl)
    /\ project = flag_project
    /\ environment = flag_environment
    /\ working_dir = flag_working_dir
    /\ pc = "load_config" /\ stages = <<>> /\ diag = NoDiag /\ exit_code = 0
    /\ dir_seen = NoDir /\ show_seen = NoShow
    /\ subprocess_calls = 0 /\ http_posts = 0
    /\ request = NoRequest /\ report = EmptyReport /\ report_lines = <<>>
    /\ LcIdle /\ UrlIdle /\ PrIdle

Next ==
    \/ LoadConfigStep
    \/ ResolveValues
    \/ ValidateDirectory
    \/ TerraformShow
    \/ AnalyzeTerraform
    \/ PrintReport

Spec == Init /\ [][Next]_vars

----------------------------------------------------------------------------
(* load_config called on its own, on every file system it can meet *)

CandidatePaths == {ExplicitPath, UserConfigPath, HomeConfigPath, LocalConfigPath}

InitConfig ==
    /\ lc_config_file \in {None, "", ExplicitPath}
    /\ lc_exists \in SUBSET CandidatePaths
    /\ lc_unreadable \in SUBSET lc_exists
    /\ lc_result = [status |-> "none", path |-> None]
    /\ RunIdle /\ UrlIdle /\ PrIdle

LoadConfigCall ==
    /\ lc_result.status = "none"
    /\ lc_result' = LoadConfig(lc_config_file, lc_exists, lc_unreadable)
    /\ UNCHANGED <<lc_config_file, lc_exists, lc_unreadable, runVars, urlVars, prVars>>

NextConfig == LoadConfigCall

SpecConfig == InitConfig /\ [][NextConfig]_vars

----------------------------------------------------------------------------
(* CasedAPI's request URL on its own, on every base URL up to MaxUrlLen    *)
(* tokens.  "h" is any text without a slash, such as a host or a digit.    *)

MaxUrlLen == 8

UrlAlphabet == {"h", "/", "api", "v1"}

SeqsUpTo(S, n) == UNION {[1..k -> S] : k \in 0..n}

Projects == {<<"p">>, <<"org", "/", "p">>}

InitUrl ==
    /\ url_base \in SeqsUpTo(UrlAlphabet, MaxUrlLen)
    /\ url_project \in Projects
    /\ url_out = <<>>
    /\ RunIdle /\ LcIdle /\ PrIdle

BuildUrl ==
    /\ url_out = <<>>
    /\ url_out' = RequestUrl(url_base, url_project)
    /\ UNCHANGED <<url_base, url_project, runVars, lcVars, prVars>>

NextUrl == BuildUrl

SpecUrl == InitUrl /\ [][NextUrl]_vars

----------------------------------------------------------------------------
(* print_drift_report on its own, on every report within the bounds *)

MaxManaged == 2

MaxPlain == 1

MaxDrift == 2

Ids == <<"r1", "r2", "r3", "r4", "r5", "r6">>

\* the k-th drift entry of a resource
DriftEntry(k) ==
    [field |-> Ids[k], expected |-> "declared", actual |-> "observed"]

\* a managed resource's drift: the key absent, or a list of 0..MaxDrift entries
Drifts ==
    {[has_drift |-> FALSE, drift |-> <<>>]}
      \cup {[has_drift |-> TRUE, drift |-> [k \in 1..n |-> DriftEntry(k)]] : n \in 0..MaxDrift}

ManagedLists ==
    UNION {{[i \in 1..n |-> [id |-> Ids[i], status |-> st[i],
                             has_drift |-> dr[i].has_drift, drift |-> dr[i].drift]] :
              st \in [1..n -> {"synced", "drifted"}], dr \in [1..n -> Drifts]} :
           n \in 0..MaxManaged}

PlainLists == {[i \in 1..n |-> [id |-> Ids[i]]] : n \in 0..MaxPlain}

\* a dict holds a bucket only under its key
Reports ==
    {r \in [keys : SUBSET (BucketKeys \cup {"other"}),
            managed : ManagedLists, unmanaged : PlainLists, missing : PlainLists] :
       /\ "managed_resources" \notin r.keys => r.managed = <<>>
       /\ "unmanaged_resources" \notin r.keys => r.unmanaged = <<>>
       /\ "missing_resources" \notin r.keys => r.missing = <<>>}

InitReport ==
    /\ pr_report \in Reports
    /\ pr_out = <<>>
    /\ pr_called = FALSE
    /\ RunIdle /\ LcIdle /\ UrlIdle

PrintCall ==
    /\ ~pr_called
    /\ pr_called' = TRUE
    /\ pr_out' = PrintDriftReport(pr_report)
    /\ UNCHANGED <<pr_report, runVars, lcVars, urlVars>>

NextReport == PrintCall

SpecReport == InitReport /\ [][NextReport]_vars

----------------------------------------------------------------------------
(* Properties of the analyze run (Spec) *)

Last(s) == s[Len(s)]

IsPrefix(s, t) == Len(s) <= Len(t) /\ SubSeq(t, 1, Len(s)) = s

Ran(stage) == \E i \in 1..Len(stages) : stages[i] = stage

\* the stage ran and raised nothing
Passed(stage) == Ran(stage) /\ ~(pc = "aborted" /\ diag.stage = stage)

\* the documented precedence: the first source that supplies a value
Precedence(sources) ==
    IF \E i \in 1..Len(sources) : sources[i] # None
    THEN sources[CHOOSE i \in 1..Len(sources) :
                   sources[i] # None /\ \A j \in 1..(i - 1) : sources[j] = None]
    ELSE None

\* C1 (as claimed): once analyze has merged its sources, every key holds the
\* CLI flag's value when a flag is given, else the environment variable's,
\* else the config file's, else the default; for api_url whatever the flag's
\* value is (--local, which sets the URL itself, aside).
C1_CliFlagWins ==
    Passed("resolve") =>
        /\ api_key = Precedence(<<flag_api_key, env_api_key, cfg.api_key>>)
        /\ project = Precedence(<<flag_project, cfg.project>>)
        /\ environment = Precedence(<<flag_environment, cfg.environment>>)
        /\ working_dir = Precedence(<<flag_working_dir, Expanduser(cfg.working_dir)>>)
        /\ ~local => api_url = Precedence(<<flag_api_url, env_api_url, cfg.api_url, DefaultApiUrl>>)

\* the same precedence for every key but api_url: the code keeps it
PrecedenceButApiUrl ==
    Passed("resolve") =>
        /\ api_key = Precedence(<<flag_api_key, env_api_key, cfg.api_key>>)
        /\ project = Precedence(<<flag_project, cfg.project>>)
        /\ environment = Precedence(<<flag_environment, cfg.environment>>)
        /\ working_dir = Precedence(<<flag_working_dir, Expanduser(cfg.working_dir)>>)

\* C2: in a dry run no POST is ever issued, analyze_terraform returns the
\* empty report {}, and print_drift_report prints nothing for it: no request
\* leaves and no report line is printed, whatever the key, project,
\* environment and show output.
C2_DryRunNoNetwork ==
    dry_run =>
        /\ http_posts = 0
        /\ ~request.sent
        /\ report = EmptyReport
        /\ report_lines = <<>>
        /\ Ran("analyze_terraform") => pc \in {"print", "done"}

\* a dry run, with no API key from any source, that ran to its end
C2_Witness ==
    /\ dry_run
    /\ pc = "done"
    /\ flag_api_key = None /\ env_api_key = None /\ cfg.api_key = None

\* C5: the validation passes only on a directory with a .tf file and a
\* .terraform directory; without a .tf file it raises a usage error whether
\* or not .terraform exists; with one but no .terraform it raises the usage
\* error naming 'terraform init'; terraform is never run on a directory that
\* failed it.
C5_ValidateDirectory ==
    /\ Passed("validate") => dir_seen.has_tf /\ dir_seen.has_dot_terraform
    /\ (Ran("validate") /\ dir_seen.exists /\ ~dir_seen.has_tf) =>
           /\ pc = "aborted" /\ diag.stage = "validate"
           /\ diag.cls = "UsageError"
    /\ (Ran("validate") /\ dir_seen.has_tf /\ ~dir_seen.has_dot_terraform) =>
           /\ pc = "aborted" /\ diag.stage = "validate"
           /\ diag.cls = "UsageError"
           /\ diag.msg = "Terraform not initialized. Please run 'terraform init' first."
    /\ subprocess_calls > 0 =>
           /\ dir_seen.exists /\ dir_seen.has_tf /\ dir_seen.has_dot_terraform
           /\ IsPrefix(<<"load_config", "resolve", "validate", "terraform_show">>, stages)

\* .tf files in a directory that was never initialized
C5_Witness ==
    /\ Ran("validate")
    /\ dir_seen.has_tf /\ ~dir_seen.has_dot_terraform
    /\ pc = "aborted"
    /\ subprocess_calls = 0

\* C7: the stages run in the one fixed order; a stage that fails is the last
\* one to run, nothing is retried or recovered, and the run ends aborted
\* with a diagnostic; terraform is not run after a missing value, and no
\* request or report follows a failed validation or terraform show.
C7_LinearPipeline ==
    /\ IsPrefix(stages, StageOrder)
    /\ subprocess_calls <= 1 /\ http_posts <= 1
    /\ subprocess_calls = (IF Ran("terraform_show") THEN 1 ELSE 0)
    /\ diag # NoDiag <=> pc = "aborted"
    /\ pc = "aborted" =>
           /\ exit_code = 1
           /\ stages # <<>> /\ diag.stage = Last(stages)
           /\ diag.kind \in {"terraform", "network", "unexpected"}
    /\ pc = "done" => stages = StageOrder /\ exit_code = 0
    /\ Ran("terraform_show") =>
           /\ RequiredValues(project, environment, api_key, dry_run) = Ok
           /\ ValidateTerraformDirectory(dir_seen) = Ok
    /\ (http_posts > 0 \/ request # NoRequest \/ Ran("print")) =>
           /\ ValidateTerraformDirectory(dir_seen) = Ok
           /\ ShowOutcome(show_seen) = Ok
    /\ report_lines # <<>> => pc = "done"

\* terraform show failed in mid-pipeline: nothing was sent or printed
C7_Witness ==
    /\ pc = "aborted"
    /\ diag.stage = "terraform_show"
    /\ show_seen.started /\ show_seen.returncode # 0
    /\ http_posts = 0 /\ report_lines = <<>>

\* a value is missing when no source supplies a non-empty one
Missing(sources) == ~Truthy(Precedence(sources))

\* C8: once the sources are merged, analyze aborts with a usage error and
\* exit status 1 exactly when the project is missing, or the environment is
\* missing, or the API key is missing and dry-run is off; with dry-run on a
\* missing key is never an error.
C8_RequiredValues ==
    Ran("resolve") =>
        /\ (pc = "aborted" /\ diag.stage = "resolve")
             <=> \/ Missing(<<flag_project, cfg.project>>)
                 \/ Missing(<<flag_environment, cfg.environment>>)
                 \/ ~dry_run /\ Missing(<<flag_api_key, env_api_key, cfg.api_key>>)
        /\ (pc = "aborted" /\ diag.stage = "resolve")
             => exit_code = 1 /\ diag.cls = "UsageError"
        /\ dry_run => diag.msg # "--api-key is required unless using --dry-run"

\* dry-run with no key from any source gets past the checks
C8_Witness ==
    /\ dry_run
    /\ Missing(<<flag_api_key, env_api_key, cfg.api_key>>)
    /\ Passed("resolve")
    /\ pc = "validate"

\* the causes the documentation files under each kind of error
UsageCauses == {"UsageError", "HTTPError"}

TransportCauses == {"ConnectionError"}

\* C9 (as claimed): a failure is reported under the kind of its cause: a
\* usage error (a non-2xx answer included) as a usage error, a transport
\* failure as a network error, and as an unexpected error only what is
\* neither.
C9_ErrorKinds ==
    pc = "aborted" =>
        /\ diag.cls \in UsageCauses => diag.kind = "usage"
        /\ diag.cls \in TransportCauses => diag.kind = "network"
        /\ diag.kind = "unexpected" => diag.cls \notin UsageCauses \cup TransportCauses

----------------------------------------------------------------------------
(* Properties of print_drift_report (SpecReport) *)

Min(S) == CHOOSE x \in S : \A y \in S : x <= y

KindAt(j) == pr_out[j][1]

Count(kind, lines) == Len(SelectSeq(lines, LAMBDA l : l[1] = kind))

\* the report is a non-empty dict whose three buckets are empty or absent
AllBucketsEmpty(r) ==
    /\ r.keys # {}
    /\ \A key \in BucketKeys : key \in r.keys => Bucket(r, key) = <<>>
    /\ r.managed = <<>> /\ r.unmanaged = <<>> /\ r.missing = <<>>

\* C3 (as claimed): for a non-empty report whose buckets are all empty or
\* absent, the printer's whole output is one line, the success message.
C3_OnlySuccessLine ==
    (pr_called /\ AllBucketsEmpty(pr_report)) =>
        Len(pr_out) = 1 /\ KindAt(1) = "success"

\* C3 (amended): for such a report the printer's whole output is the report
\* heading followed by the success message: no bucket heading, no resource
\* line, nothing else.
C3_HeadingThenSuccess ==
    (pr_called /\ AllBucketsEmpty(pr_report)) =>
        /\ Len(pr_out) = 2
        /\ KindAt(1) = "heading" /\ KindAt(2) = "success"
        /\ Count("bucket", pr_out) = 0 /\ Count("resource", pr_out) = 0

\* a report with keys but nothing in any bucket has been printed
C3_Witness ==
    /\ pr_called
    /\ pr_report.keys = {"managed_resources", "other"}
    /\ AllBucketsEmpty(pr_report)
    /\ Len(pr_out) > 0

\* the output lines that open a managed resource, and the i-th of them
ManagedPos ==
    {j \in 1..Len(pr_out) : KindAt(j) = "resource" /\ pr_out[j][2] = "managed"}

NthManagedPos(i) ==
    CHOOSE j \in ManagedPos : Cardinality({k \in ManagedPos : k < j}) = i - 1

\* the lines printed for the i-th managed resource: from its opening line
\* to the line before the next resource or bucket heading
ManagedOutput(i) ==
    LET from == NthManagedPos(i)
        later == {k \in (from + 1)..Len(pr_out) : KindAt(k) \in {"resource", "bucket"}}
    IN SubSeq(pr_out, from, IF later = {} THEN Len(pr_out) ELSE Min(later) - 1)

\* the "field: expected X, got Y" lines among lines, as drift entries
ChangesOf(lines) ==
    LET ch == SelectSeq(lines, LAMBDA l : l[1] = "change")
    IN [k \in 1..Len(ch) |-> [field |-> ch[k][2], expected |-> ch[k][3], actual |-> ch[k][4]]]

PrintedManaged(r) == Bucket(r, "managed_resources")

\* every managed resource has its own output, opened by its own name/id
ManagedPrintedOnce(r) ==
    /\ Cardinality(ManagedPos) = Len(PrintedManaged(r))
    /\ \A i \in 1..Len(PrintedManaged(r)) :
         /\ ManagedOutput(i)[1][3] = PrintedManaged(r)[i].id
         /\ Count("resource", ManagedOutput(i)) = 1

\* C4 (as claimed): a managed resource gets a "Changes:" block, one line
\* per drift entry, exactly when its status is not "synced" or it has drift
\* entries; a synced resource without drift is printed once, with no
\* "Changes:" line.
C4_ChangesIffNotSyncedOrDrift ==
    pr_called =>
        /\ ManagedPrintedOnce(pr_report)
        /\ \A i \in 1..Len(PrintedManaged(pr_report)) :
             LET res == PrintedManaged(pr_report)[i]
                 out == ManagedOutput(i)
             IN /\ Count("changes", out) = 1
                     <=> (res.status # "synced" \/ Len(res.drift) > 0)
                /\ Count("changes", out) = 1 => ChangesOf(out) = res.drift
                /\ Count("changes", out) = 0 => ChangesOf(out) = <<>>

\* C4 (amended): a managed resource gets a "Changes:" block, one line per
\* drift entry giving field, expected and actual, exactly when its drift
\* sequence is non-empty, whatever its status (the status only picks the
\* colour); a resource without drift entries is printed with its name/id
\* once and no "Changes:" line.
C4_ChangesIffDrift ==
    pr_called =>
        /\ ManagedPrintedOnce(pr_report)
        /\ \A i \in 1..Len(PrintedManaged(pr_report)) :
             LET res == PrintedManaged(pr_report)[i]
                 out == ManagedOutput(i)
             IN /\ Count("changes", out) = (IF Len(res.drift) > 0 THEN 1 ELSE 0)
                /\ ChangesOf(out) = res.drift
                /\ out[1][4] = (IF res.status = "synced" THEN "green" ELSE "yellow")

\* a resource that is not synced and lists no drift entry has been printed
C4_Witness ==
    /\ pr_called
    /\ \E i \in 1..Len(PrintedManaged(pr_report)) :
         /\ PrintedManaged(pr_report)[i].status = "drifted"
         /\ PrintedManaged(pr_report)[i].drift = <<>>
         /\ Count("changes", ManagedOutput(i)) = 0

----------------------------------------------------------------------------
(* Properties of load_config (SpecConfig) *)

\* the candidates in the documented order, the explicit path first when given
Candidates(config_file) ==
    (IF Truthy(config_file) THEN <<config_file>> ELSE <<>>) \o default_locations

FirstCandidate(config_file, exists) ==
    FirstExisting(Candidates(config_file), exists, None)

\* C6 (as claimed): load_config loads the first candidate that exists, the
\* explicit path first, also when the explicit path does not exist and a
\* default location does; it returns the empty configuration only when no
\* candidate exists.
C6_FirstExistingCandidate ==
    lc_result.status # "none" =>
        /\ lc_result.path = FirstCandidate(lc_config_file, lc_exists)
        /\ lc_result.status = "empty" <=> FirstCandidate(lc_config_file, lc_exists) = None

\* C6 (amended): given an explicit path, load_config considers that path
\* alone: it loads it when it exists and returns the empty configuration
\* when it does not, whatever default location exists; given none, it loads
\* the first of ~/.config/cased/config.yml, ~/.cased/config.yml, ./.cased.yml
\* that exists.  It returns the empty configuration, and no error, exactly
\* when the file it considers does not exist.
C6_ExplicitPathAlone ==
    lc_result.status # "none" =>
        LET considered == IF Truthy(lc_config_file) THEN <<lc_config_file>>
                          ELSE default_locations
            found == {i \in 1..Len(considered) : considered[i] \in lc_exists}
        IN /\ found = {} <=> lc_result.status = "empty"
           /\ found = {} => lc_result.path = None
           /\ found # {} => lc_result.path = considered[Min(found)]
           /\ lc_result.status = "error" <=> (found # {} /\ considered[Min(found)] \in lc_unreadable)

\* an explicit path that does not exist, beside a default location that does
C6_Witness ==
    /\ lc_config_file = ExplicitPath
    /\ ExplicitPath \notin lc_exists
    /\ HomeConfigPath \in lc_exists
    /\ lc_result.status = "empty"

----------------------------------------------------------------------------
(* Properties of the request URL (SpecUrl) *)

\* a "/api/v1" path segment starts s: the four tokens, then "/" or the end
SegmentAt(s) == StartsWith(s, ApiV1) /\ (Len(s) = Len(ApiV1) \/ s[Len(ApiV1) + 1] = "/")

\* s with every /api/v1 path segment removed and nothing else touched
RECURSIVE RemoveSegments(_)
RemoveSegments(s) ==
    IF s = <<>> THEN <<>>
    ELSE IF SegmentAt(s) THEN RemoveSegments(SubSeq(s, Len(ApiV1) + 1, Len(s)))
    ELSE <<s[1]>> \o RemoveSegments(Tail(s))

CountSegments(s) ==
    Cardinality({i \in 1..Len(s) : SegmentAt(SubSeq(s, i, Len(s)))})

\* C10 (as claimed): the request URL is {root}/api/v1/projects/{project}/infra/local
\* with root the base URL less its trailing slashes and its /api/v1 segment,
\* every other part unchanged, and it holds the /api/v1 segment exactly once.
C10_RequestUrl ==
    url_out # <<>> =>
        /\ url_out = RemoveSegments(RStripSlash(url_base)) \o ApiV1
                       \o <<"/", "projects", "/">> \o url_project \o <<"/", "infra", "/", "local">>
        /\ CountSegments(url_out) = 1

====
